---- MODULE Spec2Model ----
(***************************************************************************)
(* Model of backend/server.js: an express server with five payment routes  *)
(* (two Paystack, three PayPal) and a health route.  Every inbound request *)
(* runs its own async handler; the handler is cut into steps at its        *)
(* awaits (fetch + response.json()).  The two providers are the            *)
(* environment: they hold the transaction / order state and choose the     *)
(* reply to every call.                                                    *)
(***************************************************************************)
EXTENDS Integers, Sequences, FiniteSets, TLC

\* Number of inbound requests (one slot per request).
MaxReq == 2

Slots == 1..MaxReq

VARIABLES
    env,      \* process.env as read at module load (lines 12-14)
    req,      \* per slot: the inbound request (route and fields)
    pc,       \* per slot: where the handler is suspended
    token,    \* per slot: the handler's local accessToken
    tokReply, \* per slot: the reply to the handler's own token fetch
    reply,    \* per slot: the reply to the handler's own provider fetch
    res,      \* per slot: the response sent to the client
    calls,    \* per slot: the upstream calls the handler issued, in order
    prior,    \* per slot: what clients had been told when the request came in
    txn,      \* Paystack side: state of each transaction reference
    order     \* PayPal side: state of each order id

vars == <<env, req, pc, token, tokReply, reply, res, calls, prior, txn, order>>

-----------------------------------------------------------------------------
(* JavaScript values.  A value is a tagged string: "undefined", "null",    *)
(* "false", "true", "n:<number>", "s:<string>".                            *)

U == "undefined"

Falsy == {"undefined", "null", "false", "n:0", "s:"}

\* ToBoolean, as used by `!x`
Truthy(v) == v \notin Falsy

\* String(v) / template-literal interpolation / v.toString()
ToStr(v) ==
    IF v \in {"undefined", "null", "false", "true"} THEN v
    ELSE SubSeq(v, 3, Len(v))

-----------------------------------------------------------------------------
(* Replies of an upstream call: fetch rejects (transport failure), or it   *)
(* resolves with response.ok and a body that response.json() parses to     *)
(* null, to an object, or fails to parse.                                  *)

NoData == [json |-> "none"]

NoReply == [fetch |-> "none", ok |-> FALSE, data |-> NoData]

Reject == [fetch |-> "reject", ok |-> FALSE, data |-> NoData]

Resolve(ok, data) == [fetch |-> "resolve", ok |-> ok, data |-> data]

\* The outcome of a block of handler code: it threw, or it produced a value.
Throw(msg) == [threw |-> TRUE, message |-> msg, value |-> U]

Return(v) == [threw |-> FALSE, message |-> "", value |-> v]

\* await fetch(...); await response.json(): what the two awaits throw.
Awaited(rep) ==
    IF rep.fetch = "reject" THEN Throw("request failed")
    ELSE IF rep.data.json = "throws" THEN Throw("invalid json response body")
    ELSE Return("response")

TypeErrorOfNull == "Cannot read properties of null"

NoRes == [status |-> 0, body |-> [none |-> TRUE]]

Json(status, body) == [status |-> status, body |-> body]

Call(api, auth, arg) == [api |-> api, auth |-> auth, arg |-> arg]

NoReq ==
    [route |-> "none", email |-> U, amount |-> U, currency |-> U,
     returnUrl |-> U, cancelUrl |-> U, orderId |-> U, reference |-> U]

-----------------------------------------------------------------------------
(* Configuration *)

\* A variable of .env: not set, set to the empty string, or set.
Configs == {U, "s:", "s:configured"}

Envs ==
    [PAYSTACK_SECRET_KEY : Configs, PAYPAL_CLIENT_ID : Configs,
     PAYPAL_CLIENT_SECRET : Configs]

-----------------------------------------------------------------------------
(* Paystack, the provider side *)

References == {"ref1"}

TxnStates == {"none", "abandoned", "success", "failed"}

PayData(status, reference) ==
    [json |-> "object", status |-> status, reference |-> reference]

PayBad == [json |-> "throws", status |-> U, reference |-> U]

PayNull == [json |-> "null", status |-> U, reference |-> U]

\* Replies to POST /transaction/initialize that leave the provider unchanged.
InitializeFailures ==
    {Reject, Resolve(FALSE, PayBad), Resolve(TRUE, PayNull)}
      \cup {Resolve(ok, PayData(s, U)) : ok \in BOOLEAN, s \in {"false", U}}

VerifyData(status, dataStatus) ==
    [json |-> "object", status |-> status, dataStatus |-> dataStatus]

VerifyBad == [json |-> "throws", status |-> U, dataStatus |-> U]

VerifyNull == [json |-> "null", status |-> U, dataStatus |-> U]

\* Replies to GET /transaction/verify/:reference for a transaction in state s:
\* the transaction's record, or a failure of the call itself.
VerifyReplies(s) ==
    {Reject, Resolve(FALSE, VerifyBad), Resolve(TRUE, VerifyNull),
     Resolve(FALSE, VerifyData("false", U))}
      \cup (IF s = "none" THEN {} ELSE {Resolve(TRUE, VerifyData("true", s))})

-----------------------------------------------------------------------------
(* Paystack routes *)

\* Variant of the guard that tests for absence only.
PayInvalid_AbsentOnly(email, amount) == email = U \/ amount = U

\* line 59: the guard of the 400
PayInvalid(email, amount) == ~Truthy(email) \/ ~Truthy(amount)

\* Variant that reads the body with response.json().catch(() => ({})): a body
\* that does not parse becomes an empty object.
PayResponse_JsonFallback(rep) ==
    IF rep.fetch = "reject"
    THEN Json(500, [error |-> "Payment initialization failed"])
    ELSE IF rep.data.json = "throws"
    THEN Json(400, [error |-> "Payment initialization failed",
                    details |-> PayData(U, U)])
    ELSE IF rep.data.json = "null"
    THEN Json(500, [error |-> "Payment initialization failed"])
    ELSE IF ~Truthy(rep.data.status)
    THEN Json(400, [error |-> "Payment initialization failed", details |-> rep.data])
    ELSE Json(200, rep.data)

\* lines 76-87: the response once the initialize call has settled
PayResponse(rep) ==
    IF Awaited(rep).threw
    THEN Json(500, [error |-> "Payment initialization failed"])
    ELSE IF rep.data.json = "null"
    THEN Json(500, [error |-> "Payment initialization failed"])
    ELSE IF ~Truthy(rep.data.status)
    THEN Json(400, [error |-> "Payment initialization failed", details |-> rep.data])
    ELSE Json(200, rep.data)

\* Variant of the comparison that tests for "failed" instead of "success".
VerifyStatus_NotFailed(data) ==
    IF data.json = "object" /\ data.dataStatus = "failed" THEN "failed" ELSE "success"

\* line 101: data?.data?.status === "success"
VerifyStatus(data) ==
    IF data.json = "object" /\ data.dataStatus = "success" THEN "success" ELSE "failed"

\* Variant that treats a reply without response.ok as a failure of the call.
VerifyResponse_OkCheck(rep, reference) ==
    IF Awaited(rep).threw \/ ~rep.ok
    THEN Json(500, [error |-> "Verification failed"])
    ELSE Json(200, [data |-> [status |-> VerifyStatus(rep.data), reference |-> reference]])

\* lines 99-110
VerifyResponse(rep, reference) ==
    IF Awaited(rep).threw
    THEN Json(500, [error |-> "Verification failed"])
    ELSE Json(200, [data |-> [status |-> VerifyStatus(rep.data), reference |-> reference]])

\* Variant without the return in front of the 400: the handler responds and
\* goes on to the initialize call.
PaystackPay_NoReturn(r, email, amount) ==
    /\ pc[r] = "idle"
    /\ req' = [req EXCEPT ![r] = [NoReq EXCEPT !.route = "paystack/pay",
                                               !.email = email, !.amount = amount]]
    /\ IF PayInvalid(email, amount)
       THEN res' = [res EXCEPT ![r] =
                      Json(400, [error |-> "Email and amount are required"])]
       ELSE UNCHANGED res
    /\ calls' = [calls EXCEPT ![r] = Append(@,
                    Call("paystack/initialize", ToStr(env.PAYSTACK_SECRET_KEY),
                         ToStr(email)))]
    /\ pc' = [pc EXCEPT ![r] = "paystack"]
    /\ UNCHANGED <<env, prior, token, tokReply, reply, txn, order>>

\* POST /api/paystack/pay, up to its first await
PaystackPay(r, email, amount) ==
    /\ pc[r] = "idle"
    /\ req' = [req EXCEPT ![r] = [NoReq EXCEPT !.route = "paystack/pay",
                                               !.email = email, !.amount = amount]]
    /\ IF PayInvalid(email, amount)
       THEN /\ res' = [res EXCEPT ![r] =
                          Json(400, [error |-> "Email and amount are required"])]
            /\ pc' = [pc EXCEPT ![r] = "done"]
            /\ UNCHANGED calls
       ELSE /\ calls' = [calls EXCEPT ![r] = Append(@,
                          Call("paystack/initialize", ToStr(env.PAYSTACK_SECRET_KEY),
                               ToStr(email)))]
            /\ pc' = [pc EXCEPT ![r] = "paystack"]
            /\ UNCHANGED res
    /\ UNCHANGED <<env, prior, token, tokReply, reply, txn, order>>

\* POST /api/paystack/pay, from the reply of the initialize call to the response
PaystackPayReply(r) ==
    /\ pc[r] = "paystack"
    /\ req[r].route = "paystack/pay"
    /\ \/ \E rep \in InitializeFailures :
            /\ reply' = [reply EXCEPT ![r] = rep]
            /\ res' = [res EXCEPT ![r] = PayResponse(rep)]
            /\ UNCHANGED txn
       \/ \E ref \in References, ok \in BOOLEAN :
            /\ txn[ref] = "none"
            /\ txn' = [txn EXCEPT ![ref] = "abandoned"]
            /\ reply' = [reply EXCEPT ![r] = Resolve(ok, PayData("true", "s:" \o ref))]
            /\ res' = [res EXCEPT ![r] = PayResponse(reply'[r])]
    /\ pc' = [pc EXCEPT ![r] = "done"]
    /\ UNCHANGED <<env, prior, req, token, tokReply, calls, order>>

\* The statuses GET /verify/:reference has already reported for a reference.
ToldAbout(reference) ==
    {res[p].body.data.status :
        p \in {q \in Slots : /\ req[q].route = "paystack/verify"
                            /\ req[q].reference = reference
                            /\ res[q].status = 200}}

\* GET /verify/:reference, up to its first await
PaystackVerify(r, reference) ==
    /\ pc[r] = "idle"
    /\ req' = [req EXCEPT ![r] = [NoReq EXCEPT !.route = "paystack/verify",
                                               !.reference = reference]]
    /\ calls' = [calls EXCEPT ![r] = Append(@,
                    Call("paystack/verify", ToStr(env.PAYSTACK_SECRET_KEY), reference))]
    /\ pc' = [pc EXCEPT ![r] = "paystack"]
    /\ prior' = [prior EXCEPT ![r] = ToldAbout(reference)]
    /\ UNCHANGED <<env, token, tokReply, reply, res, txn, order>>

TxnOf(reference) == IF reference \in References THEN txn[reference] ELSE "none"

\* Variant that gives up on a call that has not returned and answers 500.
PaystackVerifyReply_Timeout(r) ==
    /\ pc[r] = "paystack"
    /\ req[r].route = "paystack/verify"
    /\ \/ \E rep \in VerifyReplies(TxnOf(req[r].reference)) :
            /\ reply' = [reply EXCEPT ![r] = rep]
            /\ res' = [res EXCEPT ![r] = VerifyResponse(rep, req[r].reference)]
       \/ /\ res' = [res EXCEPT ![r] = Json(500, [error |-> "Verification failed"])]
          /\ UNCHANGED reply
    /\ pc' = [pc EXCEPT ![r] = "done"]
    /\ UNCHANGED <<env, prior, req, token, tokReply, calls, txn, order>>

\* GET /verify/:reference, from the reply of the verify call to the response
PaystackVerifyReply(r) ==
    /\ pc[r] = "paystack"
    /\ req[r].route = "paystack/verify"
    /\ \E rep \in VerifyReplies(TxnOf(req[r].reference)) :
            /\ reply' = [reply EXCEPT ![r] = rep]
            /\ res' = [res EXCEPT ![r] = VerifyResponse(rep, req[r].reference)]
    /\ pc' = [pc EXCEPT ![r] = "done"]
    /\ UNCHANGED <<env, prior, req, token, tokReply, calls, txn, order>>

\* The payer completes or abandons the checkout on the provider's page.
PaystackSettle(ref, outcome) ==
    /\ txn[ref] = "abandoned"
    /\ txn' = [txn EXCEPT ![ref] = outcome]
    /\ UNCHANGED <<env, prior, req, pc, token, tokReply, reply, res, calls, order>>

-----------------------------------------------------------------------------
(* PayPal, the provider side *)

OrderIds == {"O1"}

OrderStates == {"NONE", "CREATED", "APPROVED", "COMPLETED"}

TokData(access_token, error_description) ==
    [json |-> "object", access_token |-> access_token,
     error_description |-> error_description]

TokBad == [json |-> "throws", access_token |-> U, error_description |-> U]

TokNull == [json |-> "null", access_token |-> U, error_description |-> U]

\* The provider issues a token of its own to every exchange: the exchange of
\* request r gets the token numbered r.
FreshToken(r) == "s:A21AAtoken" \o ToString(r)

\* Replies to POST /v1/oauth2/token, access_token being the token it would issue
TokenReplies(access_token) ==
    {Reject, Resolve(FALSE, TokBad), Resolve(TRUE, TokNull),
     Resolve(FALSE, TokData(U, "s:Client Authentication failed")),
     Resolve(FALSE, TokData(U, U)),
     Resolve(TRUE, TokData(access_token, U)),
     Resolve(TRUE, TokData(U, U))}

Link(rel, href) == [rel |-> rel, href |-> href]

NoLinks == [present |-> FALSE, list |-> <<>>]

Links(list) == [present |-> TRUE, list |-> list]

\* The links a provider reply to an order creation may carry.
LinkOptions ==
    {NoLinks, Links(<<>>), Links(<<Link("self", "s:https://paypal/orders/O1")>>),
     Links(<<Link("self", "s:https://paypal/orders/O1"),
             Link("approve", "s:https://paypal/checkoutnow?token=O1")>>)}

OrderData(id, status, links, payer) ==
    [json |-> "object", id |-> id, status |-> status, links |-> links,
     payer |-> payer, name |-> U]

OrderError(name) ==
    [json |-> "object", id |-> U, status |-> U, links |-> NoLinks, payer |-> U,
     name |-> name]

OrderBad ==
    [json |-> "throws", id |-> U, status |-> U, links |-> NoLinks, payer |-> U,
     name |-> U]

OrderNull ==
    [json |-> "null", id |-> U, status |-> U, links |-> NoLinks, payer |-> U,
     name |-> U]

\* Replies to an order call that leave the provider unchanged whatever its state.
OrderFailures ==
    {Reject, Resolve(FALSE, OrderBad), Resolve(TRUE, OrderNull),
     Resolve(FALSE, OrderError("s:AUTHENTICATION_FAILURE"))}

OrderOf(id) == IF id \in OrderIds THEN order[id] ELSE "NONE"

PayerOf(status) == IF status = "COMPLETED" THEN "s:payer" ELSE U

\* The order's record, as GET /v2/checkout/orders/:id returns it.
OrderRecord(id) ==
    IF OrderOf(id) = "NONE"
    THEN Resolve(FALSE, OrderError("s:RESOURCE_NOT_FOUND"))
    ELSE Resolve(TRUE, OrderData("s:" \o id, "s:" \o OrderOf(id), NoLinks,
                                 PayerOf(OrderOf(id))))

-----------------------------------------------------------------------------
(* PayPal routes *)

\* Variant whose catch block logs the error and does not rethrow it.
getPayPalAccessToken_Swallow(rep) ==
    IF Awaited(rep).threw \/ rep.data.json = "null" \/ ~rep.ok THEN Return(U)
    ELSE Return(rep.data.access_token)

\* lines 27-50
getPayPalAccessToken(rep) ==
    IF Awaited(rep).threw THEN Throw(Awaited(rep).message)
    ELSE IF rep.data.json = "null" THEN Throw(TypeErrorOfNull)
    ELSE IF ~rep.ok
    THEN Throw("PayPal auth failed: " \o
               (IF Truthy(rep.data.error_description)
                THEN ToStr(rep.data.error_description) ELSE "Unknown error"))
    ELSE Return(rep.data.access_token)

\* line 29
BasicAuth == "Basic " \o ToStr(env.PAYPAL_CLIENT_ID) \o ":" \o ToStr(env.PAYPAL_CLIENT_SECRET)

TokenCall == Call("paypal/token", BasicAuth, "grant_type=client_credentials")

\* line 118: a destructuring default applies to undefined only
Default(v, d) == IF v = U THEN d ELSE v

\* Variant of the guard that leaves cancelUrl out.
CreateOrderInvalid_NoCancelUrl(amount, returnUrl, cancelUrl) ==
    ~Truthy(amount) \/ ~Truthy(returnUrl)

\* line 120
CreateOrderInvalid(amount, returnUrl, cancelUrl) ==
    ~Truthy(amount) \/ ~Truthy(returnUrl) \/ ~Truthy(cancelUrl)

\* Variant without the guard.
CaptureInvalid_Never(orderId) == FALSE

\* line 193
CaptureInvalid(orderId) == ~Truthy(orderId)

\* The error text of each route's catch block (lines 181, 230, 274).
CatchError(route) ==
    CASE route = "paypal/create-order" -> "Failed to create PayPal order"
      [] route = "paypal/capture-order" -> "Failed to capture PayPal payment"
      [] route = "paypal/verify" -> "Failed to verify PayPal payment"

Catch(route, message) == Json(500, [error |-> CatchError(route), message |-> message])

\* Variant whose verify route posts to the capture URL of the order.
OrderCall_VerifyPostsCapture(q, accessToken) ==
    CASE q.route = "paypal/create-order" ->
           Call("paypal/create-order", "Bearer " \o ToStr(accessToken),
                ToStr(Default(q.currency, "s:USD")) \o " " \o ToStr(q.amount))
      [] q.route = "paypal/capture-order" ->
           Call("paypal/capture", "Bearer " \o ToStr(accessToken), ToStr(q.orderId))
      [] q.route = "paypal/verify" ->
           Call("paypal/capture", "Bearer " \o ToStr(accessToken), ToStr(q.orderId))

\* The call a handler issues once it holds accessToken (lines 147, 199, 244).
OrderCall(q, accessToken) ==
    CASE q.route = "paypal/create-order" ->
           Call("paypal/create-order", "Bearer " \o ToStr(accessToken),
                ToStr(Default(q.currency, "s:USD")) \o " " \o ToStr(q.amount))
      [] q.route = "paypal/capture-order" ->
           Call("paypal/capture", "Bearer " \o ToStr(accessToken), ToStr(q.orderId))
      [] q.route = "paypal/verify" ->
           Call("paypal/order", "Bearer " \o ToStr(accessToken), ToStr(q.orderId))

\* line 167: data.links.find(link => link.rel === "approve")
Approve(list) == SelectSeq(list, LAMBDA link : link.rel = "approve")

\* Variant that reads approvalLink?.href instead of throwing on a missing link.
CreateOrderResponse_NoLinkCheck(rep) ==
    IF Awaited(rep).threw THEN Catch("paypal/create-order", Awaited(rep).message)
    ELSE IF ~rep.ok
    THEN Json(400, [error |-> "PayPal order creation failed", details |-> rep.data])
    ELSE IF rep.data.json = "null" THEN Catch("paypal/create-order", TypeErrorOfNull)
    ELSE IF ~rep.data.links.present
    THEN Catch("paypal/create-order", "Cannot read properties of undefined")
    ELSE Json(200, [orderId |-> rep.data.id,
                    approvalUrl |-> IF Approve(rep.data.links.list) = <<>> THEN U
                                    ELSE Head(Approve(rep.data.links.list)).href,
                    status |-> rep.data.status])

\* lines 156-185
CreateOrderResponse(rep) ==
    IF Awaited(rep).threw THEN Catch("paypal/create-order", Awaited(rep).message)
    ELSE IF ~rep.ok
    THEN Json(400, [error |-> "PayPal order creation failed", details |-> rep.data])
    ELSE IF rep.data.json = "null" THEN Catch("paypal/create-order", TypeErrorOfNull)
    ELSE IF ~rep.data.links.present
    THEN Catch("paypal/create-order", "Cannot read properties of undefined")
    ELSE IF Approve(rep.data.links.list) = <<>>
    THEN Catch("paypal/create-order", "No approval URL found in PayPal response")
    ELSE Json(200, [orderId |-> rep.data.id,
                    approvalUrl |-> Head(Approve(rep.data.links.list)).href,
                    status |-> rep.data.status])

\* Variant without the response.ok test.
CaptureResponse_NoOkCheck(rep) ==
    IF Awaited(rep).threw THEN Catch("paypal/capture-order", Awaited(rep).message)
    ELSE IF rep.data.json = "null" THEN Catch("paypal/capture-order", TypeErrorOfNull)
    ELSE Json(200, [success |-> TRUE, orderId |-> rep.data.id,
                    status |-> rep.data.status, payer |-> rep.data.payer])

\* lines 210-234
CaptureResponse(rep) ==
    IF Awaited(rep).threw THEN Catch("paypal/capture-order", Awaited(rep).message)
    ELSE IF ~rep.ok
    THEN Json(400, [error |-> "PayPal capture failed", details |-> rep.data])
    ELSE IF rep.data.json = "null" THEN Catch("paypal/capture-order", TypeErrorOfNull)
    ELSE Json(200, [success |-> TRUE, orderId |-> rep.data.id,
                    status |-> rep.data.status, payer |-> rep.data.payer])

\* Variant that derives the status from the payer instead of passing it through.
PayPalVerifyResponse_DerivedStatus(rep) ==
    IF Awaited(rep).threw THEN Catch("paypal/verify", Awaited(rep).message)
    ELSE IF ~rep.ok
    THEN Json(400, [error |-> "PayPal verification failed", details |-> rep.data])
    ELSE IF rep.data.json = "null" THEN Catch("paypal/verify", TypeErrorOfNull)
    ELSE Json(200, [orderId |-> rep.data.id,
                    status |-> IF Truthy(rep.data.payer) THEN "s:COMPLETED"
                               ELSE "s:CREATED",
                    payer |-> rep.data.payer])

\* lines 253-278
PayPalVerifyResponse(rep) ==
    IF Awaited(rep).threw THEN Catch("paypal/verify", Awaited(rep).message)
    ELSE IF ~rep.ok
    THEN Json(400, [error |-> "PayPal verification failed", details |-> rep.data])
    ELSE IF rep.data.json = "null" THEN Catch("paypal/verify", TypeErrorOfNull)
    ELSE Json(200, [orderId |-> rep.data.id, status |-> rep.data.status,
                    payer |-> rep.data.payer])

\* POST /api/paypal/create-order, up to its first await (inside getPayPalAccessToken)
PayPalCreateOrder(r, amount, currency, returnUrl, cancelUrl) ==
    /\ pc[r] = "idle"
    /\ req' = [req EXCEPT ![r] =
                 [NoReq EXCEPT !.route = "paypal/create-order", !.amount = amount,
                               !.currency = currency, !.returnUrl = returnUrl,
                               !.cancelUrl = cancelUrl]]
    /\ IF CreateOrderInvalid(amount, returnUrl, cancelUrl)
       THEN /\ res' = [res EXCEPT ![r] =
                          Json(400, [error |-> "Amount, returnUrl, and cancelUrl are required"])]
            /\ pc' = [pc EXCEPT ![r] = "done"]
            /\ UNCHANGED calls
       ELSE /\ calls' = [calls EXCEPT ![r] = Append(@, TokenCall)]
            /\ pc' = [pc EXCEPT ![r] = "token"]
            /\ UNCHANGED res
    /\ UNCHANGED <<env, prior, token, tokReply, reply, txn, order>>

\* Variant that calls getPayPalAccessToken() without await: the capture is
\* fetched at once, with the pending promise as its token.
PayPalCaptureOrder_NoAwait(r, orderId) ==
    /\ pc[r] = "idle"
    /\ req' = [req EXCEPT ![r] =
                 [NoReq EXCEPT !.route = "paypal/capture-order", !.orderId = orderId]]
    /\ IF CaptureInvalid(orderId)
       THEN /\ res' = [res EXCEPT ![r] = Json(400, [error |-> "Order ID is required"])]
            /\ pc' = [pc EXCEPT ![r] = "done"]
            /\ UNCHANGED calls
       ELSE /\ calls' = [calls EXCEPT ![r] =
                           <<TokenCall, OrderCall(req'[r], "s:[object Promise]")>>]
            /\ pc' = [pc EXCEPT ![r] = "order"]
            /\ UNCHANGED res
    /\ UNCHANGED <<env, prior, token, tokReply, reply, txn, order>>

\* Variant that answers from the response of an earlier capture of the same order.
PayPalCaptureOrder_Dedup(r, orderId) ==
    /\ pc[r] = "idle"
    /\ req' = [req EXCEPT ![r] =
                 [NoReq EXCEPT !.route = "paypal/capture-order", !.orderId = orderId]]
    /\ IF CaptureInvalid(orderId)
       THEN /\ res' = [res EXCEPT ![r] = Json(400, [error |-> "Order ID is required"])]
            /\ pc' = [pc EXCEPT ![r] = "done"]
            /\ UNCHANGED calls
       ELSE IF \E p \in Slots : /\ req[p].route = "paypal/capture-order"
                                 /\ req[p].orderId = orderId
                                 /\ res[p].status = 200
       THEN /\ res' = [res EXCEPT ![r] =
                          res[CHOOSE p \in Slots : /\ req[p].route = "paypal/capture-order"
                                                   /\ req[p].orderId = orderId
                                                   /\ res[p].status = 200]]
            /\ pc' = [pc EXCEPT ![r] = "done"]
            /\ UNCHANGED calls
       ELSE /\ calls' = [calls EXCEPT ![r] = Append(@, TokenCall)]
            /\ pc' = [pc EXCEPT ![r] = "token"]
            /\ UNCHANGED res
    /\ UNCHANGED <<env, prior, token, tokReply, reply, txn, order>>

\* POST /api/paypal/capture-order, up to its first await
PayPalCaptureOrder(r, orderId) ==
    /\ pc[r] = "idle"
    /\ req' = [req EXCEPT ![r] =
                 [NoReq EXCEPT !.route = "paypal/capture-order", !.orderId = orderId]]
    /\ IF CaptureInvalid(orderId)
       THEN /\ res' = [res EXCEPT ![r] = Json(400, [error |-> "Order ID is required"])]
            /\ pc' = [pc EXCEPT ![r] = "done"]
            /\ UNCHANGED calls
       ELSE /\ calls' = [calls EXCEPT ![r] = Append(@, TokenCall)]
            /\ pc' = [pc EXCEPT ![r] = "token"]
            /\ UNCHANGED res
    /\ UNCHANGED <<env, prior, token, tokReply, reply, txn, order>>

\* Variant that keeps the last token in a module-level variable and skips the
\* exchange while it holds one.
PayPalVerify_CachedToken(r, orderId) ==
    /\ pc[r] = "idle"
    /\ req' = [req EXCEPT ![r] =
                 [NoReq EXCEPT !.route = "paypal/verify", !.orderId = orderId]]
    /\ IF \E p \in Slots : Truthy(token[p])
       THEN /\ token' = [token EXCEPT ![r] = token[CHOOSE p \in Slots : Truthy(token[p])]]
            /\ calls' = [calls EXCEPT ![r] = Append(@, OrderCall(req'[r], token'[r]))]
            /\ pc' = [pc EXCEPT ![r] = "order"]
       ELSE /\ calls' = [calls EXCEPT ![r] = Append(@, TokenCall)]
            /\ pc' = [pc EXCEPT ![r] = "token"]
            /\ UNCHANGED token
    /\ UNCHANGED <<env, prior, tokReply, reply, res, txn, order>>

\* GET /api/paypal/verify/:orderId, up to its first await
PayPalVerify(r, orderId) ==
    /\ pc[r] = "idle"
    /\ req' = [req EXCEPT ![r] =
                 [NoReq EXCEPT !.route = "paypal/verify", !.orderId = orderId]]
    /\ calls' = [calls EXCEPT ![r] = Append(@, TokenCall)]
    /\ pc' = [pc EXCEPT ![r] = "token"]
    /\ UNCHANGED <<env, prior, token, tokReply, reply, res, txn, order>>

\* Variant that keeps accessToken in a module-level variable, which every
\* handler in flight reads.
PayPalTokenReply_SharedToken(r) ==
    /\ pc[r] = "token"
    /\ \E rep \in TokenReplies(FreshToken(r)) :
         /\ tokReply' = [tokReply EXCEPT ![r] = rep]
         /\ IF getPayPalAccessToken(rep).threw
            THEN /\ res' = [res EXCEPT ![r] =
                               Catch(req[r].route, getPayPalAccessToken(rep).message)]
                 /\ pc' = [pc EXCEPT ![r] = "done"]
                 /\ UNCHANGED <<token, calls>>
            ELSE /\ token' = [p \in Slots |-> getPayPalAccessToken(rep).value]
                 /\ calls' = [calls EXCEPT ![r] = Append(@, OrderCall(req[r], token'[r]))]
                 /\ pc' = [pc EXCEPT ![r] = "order"]
                 /\ UNCHANGED res
    /\ UNCHANGED <<env, prior, req, reply, txn, order>>

\* Variant that repeats a failed token exchange once before giving up.
PayPalTokenReply_RetryOnce(r) ==
    /\ pc[r] = "token"
    /\ \E rep \in TokenReplies(FreshToken(r)) :
         /\ tokReply' = [tokReply EXCEPT ![r] = rep]
         /\ IF getPayPalAccessToken(rep).threw /\ Len(calls[r]) = 1
            THEN /\ calls' = [calls EXCEPT ![r] = Append(@, TokenCall)]
                 /\ UNCHANGED <<token, res, pc>>
            ELSE IF getPayPalAccessToken(rep).threw
            THEN /\ res' = [res EXCEPT ![r] =
                               Catch(req[r].route, getPayPalAccessToken(rep).message)]
                 /\ pc' = [pc EXCEPT ![r] = "done"]
                 /\ UNCHANGED <<token, calls>>
            ELSE /\ token' = [token EXCEPT ![r] = getPayPalAccessToken(rep).value]
                 /\ calls' = [calls EXCEPT ![r] = Append(@, OrderCall(req[r], token'[r]))]
                 /\ pc' = [pc EXCEPT ![r] = "order"]
                 /\ UNCHANGED res
    /\ UNCHANGED <<env, prior, req, reply, txn, order>>

\* getPayPalAccessToken settles and the handler goes on: to its catch block when
\* the helper threw, else to the fetch of its provider call.
PayPalTokenReply(r) ==
    /\ pc[r] = "token"
    /\ \E rep \in TokenReplies(FreshToken(r)) :
         /\ tokReply' = [tokReply EXCEPT ![r] = rep]
         /\ IF getPayPalAccessToken(rep).threw
            THEN /\ res' = [res EXCEPT ![r] =
                               Catch(req[r].route, getPayPalAccessToken(rep).message)]
                 /\ pc' = [pc EXCEPT ![r] = "done"]
                 /\ UNCHANGED <<token, calls>>
            ELSE /\ token' = [token EXCEPT ![r] = getPayPalAccessToken(rep).value]
                 /\ calls' = [calls EXCEPT ![r] = Append(@, OrderCall(req[r], token'[r]))]
                 /\ pc' = [pc EXCEPT ![r] = "order"]
                 /\ UNCHANGED res
    /\ UNCHANGED <<env, prior, req, reply, txn, order>>

\* The provider acts on an order call only when it carries a bearer token it
\* issued; any other call gets one of OrderFailures.
Authorized(r) == Truthy(token[r])

\* POST /api/paypal/create-order, from the reply of the order creation on
PayPalCreateOrderReply(r) ==
    /\ pc[r] = "order"
    /\ req[r].route = "paypal/create-order"
    /\ \/ \E rep \in OrderFailures :
            /\ reply' = [reply EXCEPT ![r] = rep]
            /\ UNCHANGED order
       \/ \E id \in OrderIds, links \in LinkOptions :
            /\ Authorized(r)
            /\ order[id] = "NONE"
            /\ order' = [order EXCEPT ![id] = "CREATED"]
            /\ reply' = [reply EXCEPT ![r] =
                           Resolve(TRUE, OrderData("s:" \o id, "s:CREATED", links, U))]
    /\ res' = [res EXCEPT ![r] = CreateOrderResponse(reply'[r])]
    /\ pc' = [pc EXCEPT ![r] = "done"]
    /\ UNCHANGED <<env, prior, req, token, tokReply, calls, txn>>

\* POST /api/paypal/capture-order, from the reply of the capture on.  The provider
\* captures an approved order; its reply may be lost on the way back.
PayPalCaptureOrderReply(r) ==
    /\ pc[r] = "order"
    /\ req[r].route = "paypal/capture-order"
    /\ LET id == ToStr(req[r].orderId) IN
       \/ \E rep \in OrderFailures :
            /\ reply' = [reply EXCEPT ![r] = rep]
            /\ UNCHANGED order
       \/ /\ Authorized(r)
          /\ OrderOf(id) = "APPROVED"
          /\ order' = [order EXCEPT ![id] = "COMPLETED"]
          /\ \E rep \in {Reject,
                         Resolve(TRUE, OrderData("s:" \o id, "s:COMPLETED", NoLinks, "s:payer"))} :
               reply' = [reply EXCEPT ![r] = rep]
       \/ /\ Authorized(r)
          /\ OrderOf(id) = "NONE"
          /\ reply' = [reply EXCEPT ![r] = Resolve(FALSE, OrderError("s:RESOURCE_NOT_FOUND"))]
          /\ UNCHANGED order
       \/ /\ Authorized(r)
          /\ OrderOf(id) = "CREATED"
          /\ reply' = [reply EXCEPT ![r] = Resolve(FALSE, OrderError("s:ORDER_NOT_APPROVED"))]
          /\ UNCHANGED order
       \/ /\ Authorized(r)
          /\ OrderOf(id) = "COMPLETED"
          /\ \E rep \in {Resolve(FALSE, OrderError("s:ORDER_ALREADY_CAPTURED")),
                         OrderRecord(id)} :
               reply' = [reply EXCEPT ![r] = rep]
          /\ UNCHANGED order
    /\ res' = [res EXCEPT ![r] = CaptureResponse(reply'[r])]
    /\ pc' = [pc EXCEPT ![r] = "done"]
    /\ UNCHANGED <<env, prior, req, token, tokReply, calls, txn>>

\* GET /api/paypal/verify/:orderId, from the reply of the order GET on
PayPalVerifyReply(r) ==
    /\ pc[r] = "order"
    /\ req[r].route = "paypal/verify"
    /\ \E rep \in OrderFailures \cup
                  (IF Authorized(r) THEN {OrderRecord(ToStr(req[r].orderId))} ELSE {}) :
         /\ reply' = [reply EXCEPT ![r] = rep]
         /\ res' = [res EXCEPT ![r] = PayPalVerifyResponse(rep)]
    /\ pc' = [pc EXCEPT ![r] = "done"]
    /\ UNCHANGED <<env, prior, req, token, tokReply, calls, txn, order>>

\* The payer approves the order on the provider's page.
PayPalApprove(id) ==
    /\ order[id] = "CREATED"
    /\ order' = [order EXCEPT ![id] = "APPROVED"]
    /\ UNCHANGED <<env, prior, req, pc, token, tokReply, reply, res, calls, txn>>

-----------------------------------------------------------------------------
(* Health route *)

\* Variant that reports paypal as soon as one of the two credentials is set.
HealthBody_EitherCredential ==
    [status |-> "OK",
     services |-> [paystack |-> Truthy(env.PAYSTACK_SECRET_KEY),
                   paypal |-> Truthy(env.PAYPAL_CLIENT_ID)
                                \/ Truthy(env.PAYPAL_CLIENT_SECRET)]]

\* lines 282-291 (the timestamp field is left out)
HealthBody ==
    [status |-> "OK",
     services |-> [paystack |-> Truthy(env.PAYSTACK_SECRET_KEY),
                   paypal |-> Truthy(env.PAYPAL_CLIENT_ID)
                                /\ Truthy(env.PAYPAL_CLIENT_SECRET)]]

\* GET /health
Health(r) ==
    /\ pc[r] = "idle"
    /\ req' = [req EXCEPT ![r] = [NoReq EXCEPT !.route = "health"]]
    /\ res' = [res EXCEPT ![r] = Json(200, HealthBody)]
    /\ pc' = [pc EXCEPT ![r] = "done"]
    /\ UNCHANGED <<env, prior, token, tokReply, reply, calls, txn, order>>

-----------------------------------------------------------------------------
(* Request fields the clients send *)

Emails == {U, "s:", "s:a@b.com"}

Amounts == {U, "n:0", "n:5000"}

ReferenceParams == {"ref1", "abc123"}

Configured ==
    [PAYSTACK_SECRET_KEY |-> "s:configured", PAYPAL_CLIENT_ID |-> "s:configured",
     PAYPAL_CLIENT_SECRET |-> "s:configured"]

Init ==
    /\ env \in Envs
    /\ req = [r \in Slots |-> NoReq]
    /\ pc = [r \in Slots |-> "idle"]
    /\ token = [r \in Slots |-> U]
    /\ tokReply = [r \in Slots |-> NoReply]
    /\ reply = [r \in Slots |-> NoReply]
    /\ res = [r \in Slots |-> NoRes]
    /\ calls = [r \in Slots |-> <<>>]
    /\ prior = [r \in Slots |-> {}]
    /\ txn \in [References -> TxnStates]
    /\ order \in [OrderIds -> OrderStates]

InitConfigured == Init /\ env = Configured

\* Only Paystack routes are called: the PayPal side plays no part.
InitPaystack == InitConfigured /\ order = [o \in OrderIds |-> "NONE"]

\* Only PayPal routes are called: the Paystack side plays no part.
InitPayPal == InitConfigured /\ txn = [ref \in References |-> "none"]

NextPaystack ==
    \/ \E r \in Slots, email \in Emails, amount \in Amounts : PaystackPay(r, email, amount)
    \/ \E r \in Slots : PaystackPayReply(r)
    \/ \E r \in Slots, reference \in ReferenceParams : PaystackVerify(r, reference)
    \/ \E r \in Slots : PaystackVerifyReply(r)
    \/ \E ref \in References, outcome \in {"success", "failed"} : PaystackSettle(ref, outcome)

SpecPaystack == InitPaystack /\ [][NextPaystack]_vars

Presence == {U, "s:https://x"}

OrderAmounts == {U, "n:10"}

Currencies == {U}

OrderIdFields == {U, "s:O1"}

OrderIdParams == {"s:O1"}

NextPayPal ==
    \/ \E r \in Slots, amount \in OrderAmounts, currency \in Currencies,
          returnUrl \in Presence, cancelUrl \in Presence :
            PayPalCreateOrder(r, amount, currency, returnUrl, cancelUrl)
    \/ \E r \in Slots, orderId \in OrderIdFields : PayPalCaptureOrder(r, orderId)
    \/ \E r \in Slots, orderId \in OrderIdParams : PayPalVerify(r, orderId)
    \/ \E r \in Slots : PayPalTokenReply(r)
    \/ \E r \in Slots : PayPalCreateOrderReply(r)
    \/ \E r \in Slots : PayPalCaptureOrderReply(r)
    \/ \E r \in Slots : PayPalVerifyReply(r)
    \/ \E id \in OrderIds : PayPalApprove(id)

SpecPayPal == InitPayPal /\ [][NextPayPal]_vars

\* The create-order route alone.
NextCreateOrder ==
    \/ \E r \in Slots, amount \in OrderAmounts, currency \in Currencies,
          returnUrl \in Presence, cancelUrl \in Presence :
            PayPalCreateOrder(r, amount, currency, returnUrl, cancelUrl)
    \/ \E r \in Slots : PayPalTokenReply(r)
    \/ \E r \in Slots : PayPalCreateOrderReply(r)
    \/ \E id \in OrderIds : PayPalApprove(id)

SpecCreateOrder == InitPayPal /\ [][NextCreateOrder]_vars

\* The capture-order route alone.
NextCapture ==
    \/ \E r \in Slots, orderId \in OrderIdFields : PayPalCaptureOrder(r, orderId)
    \/ \E r \in Slots : PayPalTokenReply(r)
    \/ \E r \in Slots : PayPalCaptureOrderReply(r)
    \/ \E id \in OrderIds : PayPalApprove(id)

SpecCapture == InitPayPal /\ [][NextCapture]_vars

\* The verify route, next to the capture route and the payer's approval.
NextVerifyOrder ==
    \/ \E r \in Slots, orderId \in OrderIdParams : PayPalVerify(r, orderId)
    \/ \E r \in Slots, orderId \in OrderIdFields : PayPalCaptureOrder(r, orderId)
    \/ \E r \in Slots : PayPalTokenReply(r)
    \/ \E r \in Slots : PayPalVerifyReply(r)
    \/ \E r \in Slots : PayPalCaptureOrderReply(r)
    \/ \E id \in OrderIds : PayPalApprove(id)

SpecVerifyOrder == InitPayPal /\ [][NextVerifyOrder]_vars

\* Any configuration, with both providers holding nothing yet.
InitHealth ==
    /\ Init
    /\ txn = [ref \in References |-> "none"]
    /\ order = [o \in OrderIds |-> "NONE"]

\* The health route next to a route of each provider.
NextHealth ==
    \/ \E r \in Slots : Health(r)
    \/ \E r \in Slots, reference \in ReferenceParams : PaystackVerify(r, reference)
    \/ \E r \in Slots : PaystackVerifyReply(r)
    \/ \E r \in Slots, orderId \in OrderIdParams : PayPalVerify(r, orderId)
    \/ \E r \in Slots : PayPalTokenReply(r)
    \/ \E r \in Slots : PayPalVerifyReply(r)

SpecHealth == InitHealth /\ [][NextHealth]_vars

Next ==
    \/ NextPaystack
    \/ NextPayPal
    \/ \E r \in Slots : Health(r)

Spec == InitConfigured /\ [][Next]_vars

\* Every upstream call that was issued returns in the end, and the event loop
\* then resumes the handler that awaits it.
CallsReturn ==
    \A r \in Slots :
        /\ WF_vars(PaystackPayReply(r))
        /\ WF_vars(PaystackVerifyReply(r))
        /\ WF_vars(PayPalTokenReply(r))
        /\ WF_vars(PayPalCreateOrderReply(r))
        /\ WF_vars(PayPalCaptureOrderReply(r))
        /\ WF_vars(PayPalVerifyReply(r))

SpecCallsReturn == InitConfigured /\ [][Next]_vars /\ CallsReturn

-----------------------------------------------------------------------------
(* Properties *)

\* A request field that is missing: absent, or empty / falsy.
Missing(v) == v \in {"undefined", "null", "false", "n:0", "s:"}

Done(r) == pc[r] = "done"

\* The provider calls of a PayPal handler, as opposed to its token exchange.
OrderApis == {"paypal/create-order", "paypal/capture", "paypal/order"}

PayPalRoutes == {"paypal/create-order", "paypal/capture-order", "paypal/verify"}

OrderCallsOf(r) == {i \in DOMAIN calls[r] : calls[r][i].api \in OrderApis}

\* C1: every POST /api/paystack/pay whose email or amount is missing is answered
\* 400 {error: "Email and amount are required"} and issues no Paystack call.
C1_MissingPayFieldIs400 ==
    \A r \in Slots :
        (req[r].route = "paystack/pay"
           /\ (Missing(req[r].email) \/ Missing(req[r].amount)))
        => /\ res[r] = Json(400, [error |-> "Email and amount are required"])
           /\ calls[r] = <<>>

\* A pay request with an email and a zero amount has been answered 400.
C1_Witness ==
    \E r \in Slots :
        /\ req[r].route = "paystack/pay"
        /\ req[r].email = "s:a@b.com"
        /\ req[r].amount = "n:0"
        /\ res[r].status = 400
        /\ \E p \in Slots : Len(calls[p]) > 0

\* C2: every POST /api/paypal/create-order that misses amount, returnUrl or
\* cancelUrl is answered 400, and neither the token request nor the order
\* creation is issued for it.
C2_MissingOrderFieldIs400 ==
    \A r \in Slots :
        (req[r].route = "paypal/create-order"
           /\ (Missing(req[r].amount) \/ Missing(req[r].returnUrl)
                 \/ Missing(req[r].cancelUrl)))
        => /\ res[r].status = 400
           /\ "error" \in DOMAIN res[r].body
           /\ calls[r] = <<>>

\* A create-order request that misses only cancelUrl has been answered 400, while
\* another request did request a token.
C2_Witness ==
    \E r, p \in Slots :
        /\ req[r].route = "paypal/create-order"
        /\ req[r].amount = "n:10"
        /\ req[r].returnUrl = "s:https://x"
        /\ req[r].cancelUrl = U
        /\ res[r].status = 400
        /\ Len(calls[p]) > 0

\* C3: every POST /api/paypal/capture-order without an orderId is answered 400,
\* and no network call (token request or capture) is issued for it.
C3_MissingOrderIdIs400 ==
    \A r \in Slots :
        (req[r].route = "paypal/capture-order" /\ Missing(req[r].orderId))
        => /\ res[r].status = 400
           /\ "error" \in DOMAIN res[r].body
           /\ calls[r] = <<>>

\* A capture request without orderId has been answered 400, while another capture
\* request went on to the provider.
C3_Witness ==
    \E r, p \in Slots :
        /\ req[r].route = "paypal/capture-order"
        /\ req[r].orderId = U
        /\ res[r].status = 400
        /\ OrderCallsOf(p) # {}

\* The token endpoint answered slot r with a parsed reply.
TokenAnswered(r) == tokReply[r].fetch = "resolve" /\ tokReply[r].data.json = "object"

\* C4: token acquisition fails whenever the token endpoint answers with a
\* non-success status or with a success reply that omits the access token, so no
\* order, capture or verify call is ever issued with an absent token.
C4_TokenAcquisitionFails ==
    \A r \in Slots :
        /\ (TokenAnswered(r)
              /\ (~tokReply[r].ok \/ tokReply[r].data.access_token = U))
           => (Done(r) /\ res[r].status = 500 /\ OrderCallsOf(r) = {})
        /\ \A i \in OrderCallsOf(r) : calls[r][i].auth # "Bearer undefined"

\* The upstream failed the call of slot r: a non-success status, or a
\* business-failure result in a parsed reply.
UpstreamFailure(r) ==
    /\ reply[r].fetch = "resolve"
    /\ reply[r].data.json = "object"
    /\ \/ ~reply[r].ok
       \/ req[r].route = "paystack/pay" /\ ~Truthy(reply[r].data.status)
       \/ req[r].route = "paystack/verify" /\ reply[r].data.dataStatus # "success"

\* C5, as claimed: on every endpoint that calls a provider, a non-success status
\* or a business-failure result is answered 400 with the upstream payload as
\* details.
C5_UpstreamFailureIs400 ==
    \A r \in Slots :
        (Done(r) /\ UpstreamFailure(r))
        => (res[r].status = 400 /\ res[r].body.details = reply[r].data)

\* C5, amended: Paystack initialize answers 400 with the payload as details when
\* the parsed reply's status flag is falsy (the HTTP status is not consulted); the
\* three PayPal routes answer 400 with the payload as details when the reply has
\* a non-success HTTP status and a body that parses; GET /verify/:reference never
\* answers 400: a parsed non-success reply gives 200 with status "failed".
C5_UpstreamFailureByRoute ==
    \A r \in Slots :
        (Done(r) /\ reply[r].fetch = "resolve" /\ reply[r].data.json # "throws")
        => /\ (req[r].route = "paystack/pay" /\ reply[r].data.json = "object")
                => IF Truthy(reply[r].data.status)
                   THEN res[r] = Json(200, reply[r].data)
                   ELSE res[r] = Json(400, [error |-> "Payment initialization failed",
                                            details |-> reply[r].data])
           /\ (req[r].route \in PayPalRoutes /\ ~reply[r].ok)
                => /\ res[r].status = 400
                   /\ res[r].body.details = reply[r].data
           /\ (req[r].route = "paystack/verify")
                => /\ res[r].status = 200
                   /\ ~(reply[r].data.json = "object" /\ reply[r].data.dataStatus = "success")
                        => res[r].body.data.status = "failed"

\* Every route has answered an upstream failure: the PayPal ones and Paystack
\* initialize with 400, Paystack verify with 200 "failed".
C5_Witness ==
    /\ \E r \in Slots :
         /\ req[r].route = "paypal/capture-order"
         /\ UpstreamFailure(r)
         /\ res[r].status = 400
         /\ res[r].body.details.name = "s:ORDER_NOT_APPROVED"
    /\ \E r \in Slots :
         /\ req[r].route = "paystack/verify"
         /\ UpstreamFailure(r)
         /\ reply[r].data.dataStatus = "failed"
         /\ res[r].status = 200

\* The parsed reply to slot r's order creation carries no link with relation
\* "approve": links absent, empty, or without that relation.
NoApproveLink(r) ==
    \/ reply[r].data.json = "null"
    \/ ~reply[r].data.links.present
    \/ \A i \in DOMAIN reply[r].data.links.list :
          reply[r].data.links.list[i].rel # "approve"

\* C6: when PayPal accepts an order creation but the payload has no "approve"
\* link, create-order answers 500 and never a success body with
\* orderId/approvalUrl.
C6_NoApproveLinkIs500 ==
    \A r \in Slots :
        (/\ req[r].route = "paypal/create-order"
         /\ Done(r)
         /\ reply[r].fetch = "resolve"
         /\ reply[r].ok
         /\ reply[r].data.json \in {"object", "null"}
         /\ NoApproveLink(r))
        => /\ res[r].status = 500
           /\ "error" \in DOMAIN res[r].body
           /\ "orderId" \notin DOMAIN res[r].body
           /\ "approvalUrl" \notin DOMAIN res[r].body

\* An accepted order creation whose links hold only a "self" link has been
\* answered 500, and the order exists on the provider.
C6_Witness ==
    \E r \in Slots :
        /\ req[r].route = "paypal/create-order"
        /\ Done(r)
        /\ reply[r].ok
        /\ reply[r].data.json = "object"
        /\ reply[r].data.links.present
        /\ Len(reply[r].data.links.list) = 1
        /\ res[r].status = 500
        /\ order["O1"] = "CREATED"

\* The credential exchange of slot r failed: transport failure, unparseable or
\* null body, or a non-success status.
ExchangeFailed(r) ==
    \/ tokReply[r].fetch = "reject"
    \/ /\ tokReply[r].fetch = "resolve"
       /\ \/ tokReply[r].data.json \in {"throws", "null"}
          \/ ~tokReply[r].ok

\* C7: for create-order, capture-order and verify, a failed credential exchange
\* is answered 500 and the dependent provider call is never issued.
C7_AuthFailureIs500 ==
    \A r \in Slots :
        (req[r].route \in PayPalRoutes /\ ExchangeFailed(r))
        => /\ Done(r)
           /\ res[r].status = 500
           /\ res[r].body.error = CatchError(req[r].route)
           /\ calls[r] = <<TokenCall>>

\* A verify request and a capture request have both been answered 500 after a
\* failed exchange.
C7_Witness ==
    \E r, p \in Slots :
        /\ req[r].route = "paypal/verify"
        /\ req[p].route = "paypal/capture-order"
        /\ ExchangeFailed(r)
        /\ ExchangeFailed(p)
        /\ tokReply[p].fetch = "resolve"
        /\ res[r].status = 500
        /\ res[p].status = 500

\* C8: within one PayPal request the token request is issued and its successful
\* reply received before the dependent call is issued: while the exchange is in
\* flight the request has issued the token call only, and a dependent call is
\* the second call, after a token call whose reply has arrived with a success
\* status.
C8_TokenPrecedesOrderCall ==
    \A r \in Slots :
        (req[r].route \in PayPalRoutes)
        => /\ (pc[r] = "token") => (calls[r] = <<TokenCall>> /\ tokReply[r] = NoReply)
           /\ \A i \in OrderCallsOf(r) :
                /\ i = 2
                /\ calls[r][1] = TokenCall
                /\ tokReply[r].fetch = "resolve"
                /\ tokReply[r].ok

\* One request waits for its order call while another still waits for its token.
C8_Witness ==
    \E r, p \in Slots :
        /\ req[r].route = "paypal/capture-order"
        /\ pc[r] = "order"
        /\ OrderCallsOf(r) = {2}
        /\ req[p].route \in PayPalRoutes
        /\ pc[p] = "token"

\* Slot r's getPayPalAccessToken returned.
ObtainedToken(r) == TokenAnswered(r) /\ tokReply[r].ok

\* C9: capture is not deduplicated: each capture-order request that obtains a
\* token issues its own capture POST, whatever other requests did with the same
\* orderId, and its response is derived from the reply to that call alone.
C9_CaptureNotDeduplicated ==
    \A r \in Slots :
        (req[r].route = "paypal/capture-order" /\ ~Missing(req[r].orderId))
        => /\ ObtainedToken(r)
                => calls[r] = <<TokenCall,
                                Call("paypal/capture", "Bearer " \o ToStr(token[r]),
                                     ToStr(req[r].orderId))>>
           /\ (Done(r) /\ res[r].status = 200)
                => /\ reply[r].fetch = "resolve"
                   /\ reply[r].ok
                   /\ res[r].body.orderId = reply[r].data.id
                   /\ res[r].body.status = reply[r].data.status
           /\ (Done(r) /\ res[r].status = 400)
                => /\ reply[r].fetch = "resolve"
                   /\ ~reply[r].ok
                   /\ res[r].body.details = reply[r].data
           /\ (Done(r) /\ res[r].status = 500)
                => \/ ExchangeFailed(r)
                   \/ reply[r].fetch = "reject"
                   \/ reply[r].data.json \in {"throws", "null"}

\* Two captures of the same order have both reached the provider: one was
\* answered 200, the other 400 with the provider's ORDER_ALREADY_CAPTURED.
C9_Witness ==
    \E r, p \in Slots :
        /\ r # p
        /\ req[r].route = "paypal/capture-order"
        /\ req[p].route = "paypal/capture-order"
        /\ req[r].orderId = req[p].orderId
        /\ res[r].status = 200
        /\ res[p].status = 400
        /\ res[p].body.details.name = "s:ORDER_ALREADY_CAPTURED"

\* Slot r has reported a status for its reference.
Reported(r) == req[r].route = "paystack/verify" /\ Done(r) /\ res[r].status = 200

ReportedStatus(r) == res[r].body.data.status

\* C10, as claimed: over the GET /verify/:reference calls for one reference, once
\* a call has reported "failed" no later call reports "success", and once a call
\* has reported "success" no later call reports "failed".
C10_ReportsOnlyMoveForward ==
    \A r \in Slots :
        Reported(r) => prior[r] \subseteq {ReportedStatus(r)}

\* C10, amended: the route keeps no status of its own; a call reports "success"
\* only for a reference whose Paystack transaction is Succeeded, so once the
\* transaction is Failed no later call reports "success".  A "failed" report is
\* not final: it is also given for a transaction that is still Initialized and
\* for any other parsed reply, so "success" may follow "failed", and "failed" may
\* follow "success".
C10_SuccessOnlyWhenSucceeded ==
    \A r \in Slots :
        (Reported(r) /\ ReportedStatus(r) = "success")
        => TxnOf(req[r].reference) = "success"

\* A call that came in after "failed" had been reported for its reference has
\* reported "success".
C10_Witness ==
    \E r \in Slots :
        /\ Reported(r)
        /\ "failed" \in prior[r]
        /\ ReportedStatus(r) = "success"

\* The upstream call itself failed: fetch rejected, or the body did not parse.
CallFailed(rep) == rep.fetch = "reject" \/ (rep.fetch = "resolve" /\ rep.data.json = "throws")

\* C11: GET /verify/:reference answers 200 {data: {status, reference}} to every
\* parseable upstream reply, whatever its HTTP status: status is "success" exactly
\* when the upstream transaction status is the string "success" and "failed"
\* otherwise, reference is the path parameter; it answers 500 with an error field
\* exactly when the call or the parse failed.
C11_VerifyMirrorsUpstream ==
    \A r \in Slots :
        (req[r].route = "paystack/verify" /\ Done(r)) =>
            IF CallFailed(reply[r])
            THEN res[r].status = 500 /\ "error" \in DOMAIN res[r].body
            ELSE res[r] =
                   Json(200, [data |->
                       [status |-> IF reply[r].data.dataStatus = "success"
                                   THEN "success" ELSE "failed",
                        reference |-> req[r].reference]])

\* One verify got an upstream error payload and reported 200 "failed" with its
\* own reference, another lost its call and reported 500.
C11_Witness ==
    \E r, p \in Slots :
        /\ req[r].route = "paystack/verify" /\ Done(r)
        /\ reply[r] = Resolve(FALSE, VerifyData("false", U))
        /\ res[r] = Json(200, [data |-> [status |-> "failed", reference |-> "abc123"]])
        /\ req[p].route = "paystack/verify" /\ Done(p)
        /\ reply[p] = Reject
        /\ res[p].status = 500

\* The upstream calls that read and change nothing at the provider's side,
\* next to the token exchange.
ReadOnlyApis == {"paypal/token", "paypal/order"}

\* Some request has sent a capture call upstream.
CaptureIssued ==
    \E p \in Slots : \E i \in DOMAIN calls[p] : calls[p][i].api = "paypal/capture"

\* C12 as stated: GET /api/paypal/verify/:orderId issues only the token exchange
\* and a GET, and two verify calls of one order with no capture in between return
\* the same status.
C12_VerifiesAgreeWithoutCapture ==
    \A r, p \in Slots :
        (/\ req[r].route = "paypal/verify" /\ req[p].route = "paypal/verify"
         /\ req[r].orderId = req[p].orderId
         /\ ~CaptureIssued) =>
            /\ \A i \in DOMAIN calls[r] : calls[r][i].api \in ReadOnlyApis
            /\ (res[r].status = 200 /\ res[p].status = 200) =>
                   res[r].body.status = res[p].body.status

\* C12, amended: every step of a verify request leaves the upstream order as it
\* was, the request issues only the token exchange and a GET of the order, and a
\* verify that receives the order's record reports the status the order has at
\* that moment.
C12_VerifyIsReadOnly ==
    [][\A r \in Slots :
          req'[r].route = "paypal/verify" =>
              /\ \A i \in DOMAIN calls'[r] : calls'[r][i].api \in ReadOnlyApis
              /\ pc'[r] # pc[r] => order' = order
              /\ (pc'[r] # pc[r] /\ res'[r].status = 200) =>
                     res'[r].body.status = "s:" \o OrderOf(ToStr(req'[r].orderId))]_vars

\* Two verify requests of an approved order both reported APPROVED, and the order
\* is still approved.
C12_Witness ==
    \E r, p \in Slots :
        /\ r # p
        /\ req[r].route = "paypal/verify" /\ req[p].route = "paypal/verify"
        /\ res[r].status = 200 /\ res[p].status = 200
        /\ res[r].body.status = "s:APPROVED" /\ res[p].body.status = "s:APPROVED"
        /\ Len(calls[r]) = 2 /\ Len(calls[p]) = 2
        /\ order["O1"] = "APPROVED"

\* A variable of the configuration that holds a value.
IsSet(v) == v \notin {"undefined", "s:"}

\* C13: GET /health is answered 200 with status "OK" and without an upstream
\* call; services.paystack is true exactly when the Paystack secret is set, and
\* services.paypal exactly when the PayPal client id and secret are both set,
\* whatever the other requests did.
C13_HealthReportsConfiguration ==
    \A r \in Slots :
        req[r].route = "health" =>
            /\ res[r].status = 200
            /\ res[r].body.status = "OK"
            /\ calls[r] = <<>>
            /\ res[r].body.services.paystack = IsSet(env.PAYSTACK_SECRET_KEY)
            /\ res[r].body.services.paypal =
                  (IsSet(env.PAYPAL_CLIENT_ID) /\ IsSet(env.PAYPAL_CLIENT_SECRET))

\* A health check reported paystack only, with the PayPal secret not set, while
\* another request had already failed with a 500.
C13_Witness ==
    \E r, p \in Slots :
        /\ req[r].route = "health" /\ Done(r)
        /\ env.PAYPAL_CLIENT_ID = "s:configured" /\ env.PAYPAL_CLIENT_SECRET = U
        /\ res[r].body.services = [paystack |-> TRUE, paypal |-> FALSE]
        /\ req[p].route = "paypal/verify" /\ res[p].status = 500

TokenCallsOf(r) == {i \in DOMAIN calls[r] : calls[r][i].api = "paypal/token"}

\* A PayPal request whose required fields are all there.
Validated(r) ==
    CASE req[r].route = "paypal/create-order" ->
           ~Missing(req[r].amount) /\ ~Missing(req[r].returnUrl) /\ ~Missing(req[r].cancelUrl)
      [] req[r].route = "paypal/capture-order" -> ~Missing(req[r].orderId)
      [] req[r].route = "paypal/verify" -> TRUE
      [] OTHER -> FALSE

\* C14: no token is cached or reused: every PayPal request that passes validation
\* performs one token exchange of its own, so there are as many token requests as
\* validated PayPal requests, and the bearer of its order call is the token its
\* own exchange returned, never the token issued to another request.
C14_OwnTokenExchange ==
    /\ \A r \in Slots :
          req[r].route \in PayPalRoutes =>
              /\ Cardinality(TokenCallsOf(r)) = IF Validated(r) THEN 1 ELSE 0
              /\ \A i \in OrderCallsOf(r) :
                    /\ \E j \in TokenCallsOf(r) : j < i
                    /\ tokReply[r].fetch = "resolve"
                    /\ calls[r][i].auth = "Bearer " \o ToStr(tokReply[r].data.access_token)
                    /\ \A p \in Slots \ {r} :
                          ObtainedToken(p) /\ Truthy(tokReply[p].data.access_token) =>
                              calls[r][i].auth #
                                  "Bearer " \o ToStr(tokReply[p].data.access_token)
    /\ Cardinality({<<r, i>> \in Slots \X (1..2) : i \in TokenCallsOf(r)})
          = Cardinality({r \in Slots : Validated(r)})

\* Two requests each exchanged credentials and each sent its order call with
\* the token of its own exchange.
C14_Witness ==
    \E r, p \in Slots :
        /\ r # p
        /\ req[r].route = "paypal/capture-order" /\ req[p].route = "paypal/verify"
        /\ Truthy(token[r]) /\ Truthy(token[p]) /\ token[r] # token[p]
        /\ OrderCallsOf(r) # {} /\ OrderCallsOf(p) # {}
        /\ Done(r) /\ Done(p)

PaystackRoutes == {"paystack/pay", "paystack/verify"}

PaystackApis == {"paystack/initialize", "paystack/verify"}

\* C15: nothing is retried: a Paystack request issues at most one Paystack call,
\* a PayPal request at most one token exchange and at most one order call, and a
\* request whose token exchange failed issues no further call.
C15_NothingRetried ==
    \A r \in Slots :
        /\ req[r].route \in PaystackRoutes =>
              /\ Len(calls[r]) <= 1
              /\ \A i \in DOMAIN calls[r] : calls[r][i].api \in PaystackApis
        /\ req[r].route \in PayPalRoutes =>
              /\ Cardinality(TokenCallsOf(r)) <= 1
              /\ Cardinality(OrderCallsOf(r)) <= 1
              /\ Len(calls[r]) = Cardinality(TokenCallsOf(r)) + Cardinality(OrderCallsOf(r))
              /\ ExchangeFailed(r) => Len(calls[r]) = 1
        /\ req[r].route \in {"none", "health"} => calls[r] = <<>>

\* One request lost its token exchange and stopped after that single call; another
\* lost its Paystack call and stopped after that single call.
C15_Witness ==
    \E r, p \in Slots :
        /\ req[r].route \in PayPalRoutes /\ Done(r)
        /\ tokReply[r] = Reject /\ Len(calls[r]) = 1
        /\ req[p].route = "paystack/pay" /\ Done(p)
        /\ reply[p] = Reject /\ Len(calls[p]) = 1

\* What the server has sent to request r, computed from nothing but the
\* request's fields, the configuration and the replies to the request's own calls.
ResponseOf(r) ==
    LET q == req[r]
        validated ==
            IF tokReply[r].fetch = "none" THEN NoRes
            ELSE IF getPayPalAccessToken(tokReply[r]).threw
            THEN Catch(q.route, getPayPalAccessToken(tokReply[r]).message)
            ELSE IF reply[r].fetch = "none" THEN NoRes
            ELSE CASE q.route = "paypal/create-order" -> CreateOrderResponse(reply[r])
                   [] q.route = "paypal/capture-order" -> CaptureResponse(reply[r])
                   [] q.route = "paypal/verify" -> PayPalVerifyResponse(reply[r])
    IN  CASE q.route = "none" -> NoRes
          [] q.route = "health" -> Json(200, HealthBody)
          [] q.route = "paystack/pay" ->
               IF Missing(q.email) \/ Missing(q.amount)
               THEN Json(400, [error |-> "Email and amount are required"])
               ELSE IF reply[r].fetch = "none" THEN NoRes ELSE PayResponse(reply[r])
          [] q.route = "paystack/verify" ->
               IF reply[r].fetch = "none" THEN NoRes
               ELSE VerifyResponse(reply[r], q.reference)
          [] q.route = "paypal/create-order" ->
               IF Validated(r) THEN validated
               ELSE Json(400, [error |-> "Amount, returnUrl, and cancelUrl are required"])
          [] q.route = "paypal/capture-order" ->
               IF Validated(r) THEN validated
               ELSE Json(400, [error |-> "Order ID is required"])
          [] q.route = "paypal/verify" -> validated

\* The state a handler holds for request r.
Local(r) == <<req[r], pc[r], token[r], tokReply[r], reply[r], res[r], calls[r]>>

\* C16: requests share no mutable state: the response to a request is a function
\* of its own fields, the configuration and the replies to its own calls, in every
\* interleaving with other requests; a step of one request leaves the state of
\* every other request as it was, and no step changes the configuration.
C16_NoSharedMutableState ==
    /\ [](\A r \in Slots : res[r] = ResponseOf(r))
    /\ [][/\ env' = env
          /\ \A r \in Slots : pc'[r] = pc[r] => Local(r)' = Local(r)]_vars

\* Two captures of the same order were in flight together; the provider answered
\* them differently and each got the response to its own reply.
C16_Witness ==
    \E r, p \in Slots :
        /\ req[r].route = "paypal/capture-order" /\ req[p] = req[r]
        /\ Done(r) /\ Done(p)
        /\ res[r].status = 200 /\ res[p].status = 400
        /\ res[r] = ResponseOf(r) /\ res[p] = ResponseOf(p)

Responded(r) == res[r].status # 0

\* C17: each request receives at most one response: a handler has responded
\* exactly when it has finished, a response once sent is never followed by
\* another, its status is one of 200, 400, 500, and it carries an error field
\* exactly when the status is 400 or 500.
C17_OneResponse ==
    /\ [](\A r \in Slots :
            /\ Responded(r) <=> Done(r)
            /\ Responded(r) =>
                  /\ res[r].status \in {200, 400, 500}
                  /\ res[r].status \in {400, 500} <=> "error" \in DOMAIN res[r].body)
    /\ [][\A r \in Slots : Responded(r) => res'[r] = res[r]]_vars

\* One request was answered 400 with an error field, another 200 without one,
\* and both handlers have finished.
C17_Witness ==
    \E r, p \in Slots :
        /\ Done(r) /\ res[r].status = 400 /\ "error" \in DOMAIN res[r].body
        /\ req[r].route = "paypal/capture-order" /\ Len(calls[r]) = 2
        /\ Done(p) /\ res[p].status = 200 /\ "error" \notin DOMAIN res[p].body
        /\ req[p].route = "paystack/pay"

\* The upstream calls of request r that failed in transport or in parsing.
FailedCallsOf(r) ==
    {i \in DOMAIN calls[r] :
        \/ calls[r][i].api = "paypal/token" /\ CallFailed(tokReply[r])
        \/ calls[r][i].api # "paypal/token" /\ CallFailed(reply[r])}

\* C18: a transport or parse failure of any upstream call (Paystack initialize,
\* Paystack verify, PayPal token, order creation, capture, order detail) is
\* answered 500 with an error field, never 200 or 400, and the response is sent
\* as soon as the call has failed.
C18_CallFailureIs500 ==
    \A r \in Slots :
        FailedCallsOf(r) # {} =>
            /\ Done(r)
            /\ res[r].status = 500
            /\ "error" \in DOMAIN res[r].body

\* A PayPal order call came back with a body that does not parse and a Paystack
\* initialize call was lost; both requests were answered 500.
C18_Witness ==
    \E r, p \in Slots :
        /\ req[r].route \in PayPalRoutes
        /\ reply[r] = Resolve(FALSE, OrderBad)
        /\ FailedCallsOf(r) = {2} /\ res[r].status = 500
        /\ req[p].route = "paystack/pay"
        /\ reply[p] = Reject
        /\ FailedCallsOf(p) = {1} /\ res[p].status = 500

\* C19: in every successful create-order, capture-order and verify response,
\* status and orderId are the status and id of the upstream reply to the
\* request's own order call, whatever that status is.
C19_StatusPassThrough ==
    \A r \in Slots :
        (req[r].route \in PayPalRoutes /\ res[r].status = 200) =>
            /\ reply[r].fetch = "resolve" /\ reply[r].data.json = "object"
            /\ res[r].body.orderId = reply[r].data.id
            /\ res[r].body.status = reply[r].data.status

\* A verify passed APPROVED through, and the capture that followed passed
\* COMPLETED through.
C19_Witness ==
    \E r, p \in Slots :
        /\ req[r].route = "paypal/verify" /\ res[r].status = 200
        /\ reply[r].data.status = "s:APPROVED" /\ res[r].body.status = "s:APPROVED"
        /\ req[p].route = "paypal/capture-order" /\ res[p].status = 200
        /\ reply[p].data.status = "s:COMPLETED" /\ res[p].body.status = "s:COMPLETED"
        /\ res[p].body.orderId = "s:O1"

\* The handler of request r is suspended at the await of an upstream call.
Awaiting(r) == pc[r] \in {"paystack", "token", "order"}

\* C20: there is no timeout and no cancellation: a request that awaits an
\* upstream call has no response, and it leaves the await only with the reply
\* to that call, so it is never answered when the call never returns; when every
\* issued call returns, every request that came in is answered in the end.
C20_NoTimeout ==
    /\ [](\A r \in Slots : Awaiting(r) => ~Responded(r))
    /\ [][\A r \in Slots :
            (Awaiting(r) /\ pc'[r] # pc[r]) =>
                IF pc[r] = "token" THEN tokReply[r] = NoReply /\ tokReply'[r] # NoReply
                ELSE reply[r] = NoReply /\ reply'[r] # NoReply]_vars
    /\ \A r \in Slots : (pc[r] # "idle") ~> (Done(r) /\ Responded(r))

\* One request has been answered after both of its calls returned; the other
\* still awaits its call and has no response.
C20_Witness ==
    \E r, p \in Slots :
        /\ Done(r) /\ Responded(r) /\ Len(calls[r]) = 2
        /\ tokReply[r] # NoReply /\ reply[r] # NoReply
        /\ pc[p] = "paystack" /\ Len(calls[p]) = 1 /\ reply[p] = NoReply
        /\ ~Responded(p)

====
